---- MODULE Spec2Model ----
(***************************************************************************)
(* UMKM tracker: the relational schema (tables, row-level-security         *)
(* policies, constraints, the updated_at trigger) and the dashboard        *)
(* handlers that read and write it.                                        *)
(*                                                                         *)
(* A table is a function from the ids of its rows to the rows.  A          *)
(* statement is one action: it evaluates the policies of its table for     *)
(* the caller (auth.uid()), then the constraints, and either changes the   *)
(* table or leaves it alone; what the caller gets back is kept in `last`.  *)
(*                                                                         *)
(* Policy semantics are PostgreSQL's: the USING expression of an UPDATE    *)
(* or SELECT policy filters the rows the statement sees (a row that does   *)
(* not pass is skipped without an error); the WITH CHECK expression is     *)
(* evaluated on the new row and raises an error when it is false.          *)
(***************************************************************************)
EXTENDS Integers, FiniteSets, Sequences, TLC

\* ------------------------------------------------------------- bounds
MaxTime == 1
MaxSubs == 1
MaxCalls == 1
MaxNotices == 2

\* -------------------------------------------------------------- values
NULL == -1
NoText == "<null>"

Users == {1, 2, 3}
VendorIds == {11, 12, 13}
SubIds == 21..(20 + MaxSubs)
CallIds == 31..(30 + MaxCalls)

UserTypes == {"vendor", "customer"}
SubStatuses == {"active", "expired", "pending"}
CallStatuses == {"pending", "acknowledged", "completed"}

VARIABLES
    profiles,        \* table profiles, keyed by id
    vendors,         \* table vendors, keyed by id
    subscriptions,   \* table subscriptions, keyed by id
    customer_calls,  \* table customer_calls, keyed by id
    now,             \* the clock: now() of the next statement
    last,            \* the last statement and what it returned to its caller
    vendorDash,      \* VendorDashboard component state, per open session
    customerDash     \* CustomerDashboard component state, per open session

tables == <<profiles, vendors, subscriptions, customer_calls>>
sessions == <<vendorDash, customerDash>>
vars == <<profiles, vendors, subscriptions, customer_calls, now, last,
          vendorDash, customerDash>>

\* ------------------------------------------------------------- helpers
\* SET col = value, ...: the row with the named columns replaced.
ApplyPatch(row, patch) ==
    [c \in DOMAIN row |-> IF c \in DOMAIN patch THEN patch[c] ELSE row[c]]

\* A statement and what it hands back: the caller (auth.uid()), the id
\* the statement names, the values or the patch it carries (kept for
\* profiles, vendors and subscriptions), the error (ok when none) and the
\* ids of the rows it changed or returned.
Result(op, uid, target, args, err, rows) ==
    [op |-> op, caller |-> uid, target |-> target, args |-> args,
     err |-> err, rows |-> rows]

NoArgs == [none |-> TRUE]

\* gen_random_uuid(): an id no row of the table has.
FreshId(table, ids) == CHOOSE i \in ids \ DOMAIN table :
                          \A j \in ids \ DOMAIN table : i <= j

\* BEFORE UPDATE trigger on profiles and vendors.
update_updated_at_column_Keep(new_row) == new_row
update_updated_at_column(new_row) == [new_row EXCEPT !.updated_at = now]

\* SELECT id FROM vendors WHERE user_id = auth.uid()
OwnVendorIds_All(uid) == DOMAIN vendors
OwnVendorIds(uid) == {v \in DOMAIN vendors : vendors[v].user_id = uid}

\* ------------------------------------------------------------ profiles
ProfilesSelectUsing(uid, row) == TRUE
ProfilesUpdateUsing(uid, row) == uid = row.id
ProfilesUpdateCheck(uid, row) == uid = row.id
ProfilesInsertCheck_Any(uid, row) == TRUE
ProfilesInsertCheck(uid, row) == uid = row.id

ProfilesConstraint(row, others) ==
    IF row.full_name = NoText \/ row.user_type = NoText THEN "notnull"
    ELSE IF row.user_type \notin UserTypes THEN "check"
    ELSE IF row.id \in others THEN "unique"
    ELSE "ok"

ProfileInserts ==
    [id : {1, 2}, full_name : {"a", NoText},
     user_type : UserTypes \cup {"admin"}]

ProfilePatches ==
    {[full_name |-> "b"], [full_name |-> "b", updated_at |-> 0],
     [created_at |-> 0]}
      \cup {[user_type |-> t] : t \in UserTypes \cup {"admin"}}
      \cup {[id |-> u] : u \in Users}

ProfileDefaults ==
    [id |-> 0, full_name |-> NoText, user_type |-> NoText,
     created_at |-> now, updated_at |-> now]

\* INSERT INTO profiles: the new table and the result.
ProfilesInsert(uid, vals) ==
    LET row == ApplyPatch(ProfileDefaults, vals)
        err == IF ~ProfilesInsertCheck(uid, row) THEN "rls"
               ELSE ProfilesConstraint(row, DOMAIN profiles)
    IN [table |-> IF err = "ok"
                  THEN [i \in DOMAIN profiles \cup {row.id} |->
                          IF i = row.id THEN row ELSE profiles[i]]
                  ELSE profiles,
        result |-> Result("insert_profiles", uid, row.id, vals, err,
                          IF err = "ok" THEN {row.id} ELSE {})]

\* UPDATE profiles SET patch WHERE id = target: the new table and the result.
ProfilesUpdate(uid, target, patch) ==
    LET seen == {i \in DOMAIN profiles \cap {target} :
                    /\ ProfilesSelectUsing(uid, profiles[i])
                    /\ ProfilesUpdateUsing(uid, profiles[i])}
        new == update_updated_at_column(ApplyPatch(profiles[target], patch))
        err == IF seen = {} THEN "ok"
               ELSE IF ~ProfilesUpdateCheck(uid, new) THEN "rls"
               ELSE ProfilesConstraint(new, DOMAIN profiles \ {target})
    IN [table |-> IF seen # {} /\ err = "ok"
                  THEN [profiles EXCEPT ![target] = new]
                  ELSE profiles,
        result |-> Result("update_profiles", uid, target, patch, err,
                          IF err = "ok" THEN seen ELSE {})]

InsertProfile(uid, vals) ==
    /\ profiles' = ProfilesInsert(uid, vals).table
    /\ last' = ProfilesInsert(uid, vals).result
    /\ UNCHANGED <<vendors, subscriptions, customer_calls, now, sessions>>

UpdateProfile(uid, target, patch) ==
    /\ profiles' = ProfilesUpdate(uid, target, patch).table
    /\ last' = ProfilesUpdate(uid, target, patch).result
    /\ UNCHANGED <<vendors, subscriptions, customer_calls, now, sessions>>

\* ------------------------------------------------------------- vendors
VendorsSelectUsing(uid, row) == TRUE
VendorsUpdateUsing(uid, row) == row.user_id = uid
VendorsUpdateCheck_Any(uid, row) == TRUE
VendorsUpdateCheck(uid, row) == row.user_id = uid
VendorsInsertCheck(uid, row) == row.user_id = uid

\* NOT NULL, UNIQUE (user_id), REFERENCES profiles(id)
VendorsConstraint_NoUnique(row, others) ==
    IF row.business_name = NoText THEN "notnull"
    ELSE IF row.user_id \notin DOMAIN profiles THEN "fk"
    ELSE "ok"
VendorsConstraint(row, others) ==
    IF row.business_name = NoText THEN "notnull"
    ELSE IF \E v \in others : vendors[v].user_id = row.user_id THEN "unique"
    ELSE IF row.user_id \notin DOMAIN profiles THEN "fk"
    ELSE "ok"

VendorDefaults(id) ==
    [id |-> id, user_id |-> 0, business_name |-> NoText,
     is_active |-> FALSE,
     current_latitude |-> NULL, current_longitude |-> NULL,
     last_location_update |-> NULL,
     created_at |-> now, updated_at |-> now]

\* INSERT INTO vendors: the new table and the result.
VendorsInsert(uid, vals) ==
    LET row == ApplyPatch(VendorDefaults(FreshId(vendors, VendorIds)), vals)
        err == IF ~VendorsInsertCheck(uid, row) THEN "rls"
               ELSE VendorsConstraint(row, DOMAIN vendors)
    IN [table |-> IF err = "ok"
                  THEN [i \in DOMAIN vendors \cup {row.id} |->
                          IF i = row.id THEN row ELSE vendors[i]]
                  ELSE vendors,
        result |-> Result("insert_vendors", uid, row.id, vals, err,
                          IF err = "ok" THEN {row.id} ELSE {})]

\* UPDATE vendors SET patch WHERE id = target: the new table and the result.
VendorsUpdate(uid, target, patch) ==
    LET seen == {i \in DOMAIN vendors \cap {target} :
                    /\ VendorsSelectUsing(uid, vendors[i])
                    /\ VendorsUpdateUsing(uid, vendors[i])}
        new == update_updated_at_column(ApplyPatch(vendors[target], patch))
        err == IF seen = {} THEN "ok"
               ELSE IF ~VendorsUpdateCheck(uid, new) THEN "rls"
               ELSE VendorsConstraint(new, DOMAIN vendors \ {target})
    IN [table |-> IF seen # {} /\ err = "ok"
                  THEN [vendors EXCEPT ![target] = new]
                  ELSE vendors,
        result |-> Result("update_vendors", uid, target, patch, err,
                          IF err = "ok" THEN seen ELSE {})]

\* SELECT id FROM vendors: the rows the caller gets.
VendorsSelect(uid) ==
    {i \in DOMAIN vendors : VendorsSelectUsing(uid, vendors[i])}

InsertVendor(uid, vals) ==
    /\ VendorIds \ DOMAIN vendors # {}
    /\ vendors' = VendorsInsert(uid, vals).table
    /\ last' = VendorsInsert(uid, vals).result
    /\ UNCHANGED <<profiles, subscriptions, customer_calls, now, sessions>>

UpdateVendor(uid, target, patch) ==
    /\ vendors' = VendorsUpdate(uid, target, patch).table
    /\ last' = VendorsUpdate(uid, target, patch).result
    /\ UNCHANGED <<profiles, subscriptions, customer_calls, now, sessions>>

SelectVendors(uid) ==
    /\ last' = Result("select_vendors", uid, 0, NoArgs, "ok",
                      VendorsSelect(uid))
    /\ UNCHANGED <<tables, now, sessions>>

VendorInserts == [user_id : Users, business_name : {"a", NoText}]

VendorPatches ==
    {[is_active |-> b] : b \in BOOLEAN}
      \cup {[user_id |-> u] : u \in Users}
      \cup {[is_active |-> b, updated_at |-> 0] : b \in BOOLEAN}

\* ------------------------------------------------------- subscriptions
DefaultAmount == 5000

\* vendor_id IN (SELECT id FROM vendors WHERE user_id = auth.uid())
SubsSelectUsing(uid, row) == row.vendor_id \in OwnVendorIds(uid)
SubsUpdateUsing(uid, row) == row.vendor_id \in OwnVendorIds(uid)
SubsUpdateCheck(uid, row) == row.vendor_id \in OwnVendorIds(uid)
SubsInsertCheck_Any(uid, row) == TRUE
SubsInsertCheck(uid, row) == row.vendor_id \in OwnVendorIds(uid)

\* NOT NULL, CHECK (status IN ...), REFERENCES vendors(id)
SubsConstraint(row) ==
    IF row.vendor_id = NULL \/ row.start_date = NULL \/ row.end_date = NULL
    THEN "notnull"
    ELSE IF row.status \notin SubStatuses THEN "check"
    ELSE IF row.vendor_id \notin DOMAIN vendors THEN "fk"
    ELSE "ok"

SubDefaults_Active(id) ==
    [id |-> id, vendor_id |-> NULL, start_date |-> NULL, end_date |-> NULL,
     amount |-> 0, status |-> "active",
     payment_date |-> NULL, created_at |-> now]
SubDefaults(id) ==
    [id |-> id, vendor_id |-> NULL, start_date |-> NULL, end_date |-> NULL,
     amount |-> DefaultAmount, status |-> "pending",
     payment_date |-> NULL, created_at |-> now]

\* INSERT INTO subscriptions: the new table and the result.
SubsInsert(uid, vals) ==
    LET row == ApplyPatch(SubDefaults(FreshId(subscriptions, SubIds)), vals)
        err == IF ~SubsInsertCheck(uid, row) THEN "rls"
               ELSE SubsConstraint(row)
    IN [table |-> IF err = "ok"
                  THEN [i \in DOMAIN subscriptions \cup {row.id} |->
                          IF i = row.id THEN row ELSE subscriptions[i]]
                  ELSE subscriptions,
        result |-> Result("insert_subscriptions", uid, row.id, vals, err,
                          IF err = "ok" THEN {row.id} ELSE {})]

\* UPDATE subscriptions SET patch WHERE id = target.
SubsUpdate(uid, target, patch) ==
    LET seen == {i \in DOMAIN subscriptions \cap {target} :
                    /\ SubsSelectUsing(uid, subscriptions[i])
                    /\ SubsUpdateUsing(uid, subscriptions[i])}
        new == ApplyPatch(subscriptions[target], patch)
        err == IF seen = {} THEN "ok"
               ELSE IF ~SubsUpdateCheck(uid, new) THEN "rls"
               ELSE SubsConstraint(new)
    IN [table |-> IF seen # {} /\ err = "ok"
                  THEN [subscriptions EXCEPT ![target] = new]
                  ELSE subscriptions,
        result |-> Result("update_subscriptions", uid, target, patch, err,
                          IF err = "ok" THEN seen ELSE {})]

\* SELECT id FROM subscriptions: the rows the caller gets.
SubsSelect(uid) ==
    {i \in DOMAIN subscriptions : SubsSelectUsing(uid, subscriptions[i])}

InsertSubscription(uid, vals) ==
    /\ SubIds \ DOMAIN subscriptions # {}
    /\ subscriptions' = SubsInsert(uid, vals).table
    /\ last' = SubsInsert(uid, vals).result
    /\ UNCHANGED <<profiles, vendors, customer_calls, now, sessions>>

UpdateSubscription(uid, target, patch) ==
    /\ subscriptions' = SubsUpdate(uid, target, patch).table
    /\ last' = SubsUpdate(uid, target, patch).result
    /\ UNCHANGED <<profiles, vendors, customer_calls, now, sessions>>

SelectSubscriptions(uid) ==
    /\ last' = Result("select_subscriptions", uid, 0, NoArgs, "ok",
                      SubsSelect(uid))
    /\ UNCHANGED <<tables, now, sessions>>

\* The values handlePayment sends, and direct inserts that leave columns
\* to their defaults or name a status outside the enumeration.
SubInserts ==
    {[vendor_id |-> v, start_date |-> now, end_date |-> now + 1,
      amount |-> 5000, status |-> "active", payment_date |-> now] :
        v \in VendorIds}
      \cup {[vendor_id |-> v, start_date |-> now, end_date |-> now + 1] :
               v \in VendorIds}
      \cup {[vendor_id |-> v, start_date |-> now, end_date |-> now + 1,
              status |-> "paid"] : v \in VendorIds}

SubPatches ==
    {[status |-> s] : s \in {"active", "expired", "paid"}}
      \cup {[vendor_id |-> v] : v \in {11, 12}}
      \cup {[amount |-> 1000]}

\* ------------------------------------------------------ customer_calls
\* "Customers can view own calls"
CallsSelectUsingCustomer(uid, row) == row.customer_id = uid
\* "Vendors can view calls to them"
CallsSelectUsingVendor_None(uid, row) == FALSE
CallsSelectUsingVendor(uid, row) == row.vendor_id \in OwnVendorIds(uid)
\* Permissive policies of one command are OR-ed.
CallsSelectUsing(uid, row) ==
    CallsSelectUsingCustomer(uid, row) \/ CallsSelectUsingVendor(uid, row)
\* "Vendors can update calls to them"
CallsUpdateUsing(uid, row) == row.vendor_id \in OwnVendorIds(uid)
CallsUpdateCheck(uid, row) == row.vendor_id \in OwnVendorIds(uid)
\* "Customers can create calls"
CallsInsertCheck_Any(uid, row) == TRUE
CallsInsertCheck(uid, row) == row.customer_id = uid

\* NOT NULL, CHECK (status IN ...), REFERENCES profiles(id), vendors(id)
CallsConstraint(row) ==
    IF \/ row.customer_id = NULL \/ row.vendor_id = NULL
       \/ row.customer_latitude = NULL \/ row.customer_longitude = NULL
    THEN "notnull"
    ELSE IF row.status \notin CallStatuses THEN "check"
    ELSE IF \/ row.customer_id \notin DOMAIN profiles
            \/ row.vendor_id \notin DOMAIN vendors THEN "fk"
    ELSE "ok"

CallDefaults(id) ==
    [id |-> id, customer_id |-> NULL, vendor_id |-> NULL,
     customer_latitude |-> NULL, customer_longitude |-> NULL,
     status |-> "pending", created_at |-> now,
     acknowledged_at |-> NULL, completed_at |-> NULL]

\* INSERT INTO customer_calls: the new table and the result.
CallsInsert(uid, vals) ==
    LET row == ApplyPatch(CallDefaults(FreshId(customer_calls, CallIds)), vals)
        err == IF ~CallsInsertCheck(uid, row) THEN "rls"
               ELSE CallsConstraint(row)
    IN [table |-> IF err = "ok"
                  THEN [i \in DOMAIN customer_calls \cup {row.id} |->
                          IF i = row.id THEN row ELSE customer_calls[i]]
                  ELSE customer_calls,
        result |-> Result("insert_customer_calls", uid, row.id, NoArgs, err,
                          IF err = "ok" THEN {row.id} ELSE {})]

\* UPDATE customer_calls SET patch WHERE id = target.
CallsUpdate(uid, target, patch) ==
    LET seen == {i \in DOMAIN customer_calls \cap {target} :
                    /\ CallsSelectUsing(uid, customer_calls[i])
                    /\ CallsUpdateUsing(uid, customer_calls[i])}
        new == ApplyPatch(customer_calls[target], patch)
        err == IF seen = {} THEN "ok"
               ELSE IF ~CallsUpdateCheck(uid, new) THEN "rls"
               ELSE CallsConstraint(new)
    IN [table |-> IF seen # {} /\ err = "ok"
                  THEN [customer_calls EXCEPT ![target] = new]
                  ELSE customer_calls,
        result |-> Result("update_customer_calls", uid, target, NoArgs, err,
                          IF err = "ok" THEN seen ELSE {})]

\* SELECT id FROM customer_calls: the rows the caller gets.
CallsSelect(uid) ==
    {i \in DOMAIN customer_calls : CallsSelectUsing(uid, customer_calls[i])}

InsertCall(uid, vals) ==
    /\ CallIds \ DOMAIN customer_calls # {}
    /\ customer_calls' = CallsInsert(uid, vals).table
    /\ last' = CallsInsert(uid, vals).result
    /\ UNCHANGED <<profiles, vendors, subscriptions, now, sessions>>

UpdateCall(uid, target, patch) ==
    /\ customer_calls' = CallsUpdate(uid, target, patch).table
    /\ last' = CallsUpdate(uid, target, patch).result
    /\ UNCHANGED <<profiles, vendors, subscriptions, now, sessions>>

SelectCalls(uid) ==
    /\ last' = Result("select_customer_calls", uid, 0, NoArgs, "ok",
                      CallsSelect(uid))
    /\ UNCHANGED <<tables, now, sessions>>

\* Direct inserts: any stated customer, any vendor id (13 is no row), the
\* status left to its default or named.
CallInserts ==
    {[customer_id |-> c, vendor_id |-> v,
      customer_latitude |-> 1, customer_longitude |-> 2] :
        c \in Users, v \in VendorIds}
      \cup {[customer_id |-> c, vendor_id |-> 11,
              customer_latitude |-> 1, customer_longitude |-> 2,
              status |-> st] :
               c \in Users, st \in {"completed", "cancelled"}}

\* Direct updates: a status, another vendor.
CallPatches ==
    {[status |-> st] : st \in CallStatuses \cup {"cancelled"}}
      \cup {[vendor_id |-> v] : v \in {11, 12}}

\* --------------------------------------------------- CustomerDashboard
NoLocation == [lat |-> NULL, lng |-> NULL]
Positions == {[lat |-> 1, lng |-> 2], [lat |-> 2, lng |-> 1]}

\* useState: vendors [], userLocation null, callingSent null.  `vendors`
\* holds the ids of the listed rows.  Around it: `notices` counts the
\* change notifications of the 'active-vendors' channel not yet handed to
\* the callback, `requested` the loadVendors calls whose query has not run
\* yet (one on mount), and `loads` holds the query results that have not
\* come back to the component yet.
CustomerState ==
    [vendors |-> {}, userLocation |-> NoLocation, callingSent |-> NULL,
     notices |-> 0, requested |-> 1, loads |-> {}]

\* getCurrentPosition's success callback.
getUserLocation(u, pos) ==
    /\ customerDash' = [customerDash EXCEPT ![u].userLocation = pos]
    /\ UNCHANGED <<tables, now, last, vendorDash>>

\* SELECT * FROM vendors WHERE is_active AND both coordinates NOT NULL.
ActiveVendors(uid) ==
    {v \in VendorsSelect(uid) :
        /\ vendors[v].is_active
        /\ vendors[v].current_latitude # NULL
        /\ vendors[v].current_longitude # NULL}

\* A changed row of vendors is announced to every open customer dashboard.
postgres_changes(rows) ==
    [u \in DOMAIN customerDash |->
        IF rows = {} THEN customerDash[u]
        ELSE [customerDash[u] EXCEPT !.notices = @ + 1]]

\* The channel's callback: () => { loadVendors() }
vendorsChanged(u) ==
    /\ customerDash[u].notices > 0
    /\ customerDash' = [customerDash EXCEPT ![u].notices = @ - 1,
                                             ![u].requested = @ + 1]
    /\ UNCHANGED <<tables, now, last, vendorDash>>

\* loadVendors up to its await: the query runs on the table as it is now.
loadVendors(u) ==
    /\ customerDash[u].requested > 0
    /\ customerDash' =
         [customerDash EXCEPT ![u].requested = @ - 1,
                              ![u].loads = @ \cup {ActiveVendors(u)}]
    /\ last' = Result("select_vendors", u, 0, NoArgs, "ok", ActiveVendors(u))
    /\ UNCHANGED <<tables, now, vendorDash>>

\* loadVendors after its await: setVendors(data || []).  The results of
\* several calls come back in any order.
setVendors(u, data) ==
    /\ data \in customerDash[u].loads
    /\ customerDash' = [customerDash EXCEPT ![u].vendors = data,
                                             ![u].loads = @ \ {data}]
    /\ UNCHANGED <<tables, now, last, vendorDash>>

\* The notifications, queries and results a dashboard has outstanding.
Outstanding(u) ==
    customerDash[u].notices + customerDash[u].requested
       + Cardinality(customerDash[u].loads)

\* UPDATE vendors SET patch WHERE id = target, with customer dashboards
\* listening.
UpdateVendorListened(uid, target, patch) ==
    LET r == VendorsUpdate(uid, target, patch)
    IN /\ \A u \in DOMAIN customerDash : Outstanding(u) < MaxNotices
       /\ vendors' = r.table
       /\ last' = r.result
       /\ customerDash' = postgres_changes(r.result.rows)
       /\ UNCHANGED <<profiles, subscriptions, customer_calls, now, vendorDash>>

\* The values callVendor inserts.
callVendorValues(u, vendorId) ==
    [customer_id |-> u, vendor_id |-> vendorId,
     customer_latitude |-> customerDash[u].userLocation.lat,
     customer_longitude |-> customerDash[u].userLocation.lng,
     status |-> "pending"]

\* The "Panggil" button of a listed vendor.
callVendor(u, vendorId) ==
    /\ vendorId \in customerDash[u].vendors
    /\ customerDash[u].callingSent # vendorId
    /\ CallIds \ DOMAIN customer_calls # {}
    /\ IF customerDash[u].userLocation = NoLocation
       THEN UNCHANGED <<customer_calls, last, customerDash>>
       ELSE LET r == CallsInsert(u, callVendorValues(u, vendorId))
            IN /\ customer_calls' = r.table
               /\ last' = r.result
               /\ customerDash' =
                    IF r.result.err = "ok"
                    THEN [customerDash EXCEPT ![u].callingSent = vendorId]
                    ELSE customerDash
    /\ UNCHANGED <<profiles, vendors, subscriptions, now, vendorDash>>

\* setTimeout(() => setCallingSent(null), 3000)
callingSentTimeout(u) ==
    /\ customerDash[u].callingSent # NULL
    /\ customerDash' = [customerDash EXCEPT ![u].callingSent = NULL]
    /\ UNCHANGED <<tables, now, last, vendorDash>>

\* ----------------------------------------------------- VendorDashboard
\* No acknowledgeCall of the session is in flight.
NoAck == [stage |-> "idle", id |-> NULL, at |-> NULL, calls |-> {}]

\* No subscription row held by the session.
NoSub == [status |-> NoText, end_date |-> NULL]

\* useState: vendor null, calls [], subscription null, loading true,
\* locationTracking false.  `vendor` holds the id of the loaded row and
\* `calls` the ids of the listed rows; `ack` is the acknowledgeCall in
\* flight: the call, the client time it sends, and the `calls` its closure
\* holds; `locating` says a getCurrentPosition callback is outstanding and
\* `watching` that a watchPosition callback is registered.
VendorState(uid) ==
    [user |-> uid, vendor |-> NULL, calls |-> {}, ack |-> NoAck,
     subscription |-> NoSub, loading |-> TRUE, locationTracking |-> FALSE,
     locating |-> FALSE, watching |-> FALSE]

\* .from('vendors').select('*').eq('user_id', user.id).maybeSingle()
OwnVendorRow(uid) ==
    LET found == {v \in VendorsSelect(uid) : vendors[v].user_id = uid}
    IN IF Cardinality(found) = 1 THEN CHOOSE v \in found : TRUE ELSE NULL

\* .from('customer_calls').select(...).eq('vendor_id', id).eq('status', 'pending')
PendingCalls(uid, vendorId) ==
    {c \in CallsSelect(uid) :
        /\ customer_calls[c].vendor_id = vendorId
        /\ customer_calls[c].status = "pending"}

\* .from('subscriptions').select('status, end_date').eq('vendor_id', id)
\*   .eq('status', 'active').order('end_date', desc).limit(1).maybeSingle()
LatestActiveSubscription(uid, vendorId) ==
    LET found == {i \in SubsSelect(uid) :
                     /\ subscriptions[i].vendor_id = vendorId
                     /\ subscriptions[i].status = "active"}
        top == CHOOSE i \in found :
                  \A j \in found :
                     subscriptions[j].end_date <= subscriptions[i].end_date
    IN IF found = {} THEN NoSub
       ELSE [status |-> subscriptions[top].status,
             end_date |-> subscriptions[top].end_date]

\* On mount, on every INSERT notification of customer_calls, and after a
\* setup form's insert.
loadVendorData(s) ==
    LET uid == vendorDash[s].user
        vendorData == OwnVendorRow(uid)
    IN /\ vendorDash' =
            IF vendorData # NULL
            THEN [vendorDash EXCEPT
                    ![s].vendor = vendorData,
                    ![s].locationTracking = vendors[vendorData].is_active,
                    ![s].calls = PendingCalls(uid, vendorData),
                    ![s].subscription =
                        LatestActiveSubscription(uid, vendorData),
                    ![s].loading = FALSE]
            ELSE [vendorDash EXCEPT ![s].loading = FALSE]
       /\ UNCHANGED <<tables, now, last, customerDash>>

\* The "Konfirmasi" button of a listed call: the update is sent with the
\* client's time, and the handler's closure keeps the list as rendered.
acknowledgeCall(s, callId) ==
    /\ vendorDash[s].ack.stage = "idle"
    /\ callId \in vendorDash[s].calls
    /\ vendorDash' = [vendorDash EXCEPT ![s].ack =
                        [stage |-> "sent", id |-> callId, at |-> now,
                         calls |-> vendorDash[s].calls]]
    /\ UNCHANGED <<tables, now, last, customerDash>>

\* .update({ status: 'acknowledged', acknowledged_at }).eq('id', callId)
acknowledgePatch_StatusOnly(at) == [status |-> "acknowledged"]
acknowledgePatch(at) == [status |-> "acknowledged", acknowledged_at |-> at]

\* The update reaches the database.
acknowledgeApply(s) ==
    LET a == vendorDash[s].ack
        r == CallsUpdate(vendorDash[s].user, a.id, acknowledgePatch(a.at))
    IN /\ a.stage = "sent"
       /\ customer_calls' = r.table
       /\ last' = r.result
       /\ vendorDash' = [vendorDash EXCEPT ![s].ack.stage = "applied"]
       /\ UNCHANGED <<profiles, vendors, subscriptions, now, customerDash>>

\* The await returns (its error is not looked at):
\* setCalls(calls.filter(c => c.id !== callId))
acknowledgeDone(s) ==
    LET a == vendorDash[s].ack
    IN /\ a.stage = "applied"
       /\ vendorDash' = [vendorDash EXCEPT ![s].calls = a.calls \ {a.id},
                                           ![s].ack = NoAck]
       /\ UNCHANGED <<tables, now, last, customerDash>>

\* const isSubscriptionExpired = !subscription || subscription.status !== 'active'
isSubscriptionExpired(s) ==
    \/ vendorDash[s].subscription = NoSub
    \/ vendorDash[s].subscription.status # "active"

\* The dashboard proper is rendered (not "Memuat...", not the setup form)
\* and its toggle button is not disabled.
ToggleEnabled(s) ==
    /\ ~vendorDash[s].loading
    /\ vendorDash[s].vendor # NULL
    /\ ~isSubscriptionExpired(s)

\* .update({ is_active: true, current_latitude, current_longitude,
\*           last_location_update: new Date() })
activatePatch_FlagOnly(pos) == [is_active |-> TRUE]
activatePatch(pos) ==
    [is_active |-> TRUE, current_latitude |-> pos.lat,
     current_longitude |-> pos.lng, last_location_update |-> now]

\* .update({ is_active: false })
deactivatePatch_ClearPosition ==
    [is_active |-> FALSE, current_latitude |-> NULL,
     current_longitude |-> NULL, last_location_update |-> NULL]
deactivatePatch == [is_active |-> FALSE]

\* .update({ current_latitude, current_longitude, last_location_update })
locationPatch_NoTime(pos) ==
    [current_latitude |-> pos.lat, current_longitude |-> pos.lng]
locationPatch(pos) ==
    [current_latitude |-> pos.lat, current_longitude |-> pos.lng,
     last_location_update |-> now]

\* The toggle button.  Not tracking: getCurrentPosition is asked and its
\* callback is outstanding.  Tracking: the row is deactivated (the
\* update's error is not looked at) and the state follows.
toggleLocationTracking(s) ==
    /\ ToggleEnabled(s)
    /\ IF ~vendorDash[s].locationTracking
       THEN /\ vendorDash' = [vendorDash EXCEPT ![s].locating = TRUE]
            /\ UNCHANGED <<vendors, last>>
       ELSE LET r == VendorsUpdate(vendorDash[s].user, vendorDash[s].vendor,
                                   deactivatePatch)
            IN /\ vendors' = r.table
               /\ last' = r.result
               /\ vendorDash' =
                    [vendorDash EXCEPT ![s].locationTracking = FALSE]
    /\ UNCHANGED <<profiles, subscriptions, customer_calls, now, customerDash>>

\* getCurrentPosition's callback in toggleLocationTracking: the row is
\* activated with the position, then setLocationTracking(true) and
\* startLocationUpdates().
activatePosition(s, pos) ==
    LET r == VendorsUpdate(vendorDash[s].user, vendorDash[s].vendor,
                           activatePatch(pos))
    IN /\ vendorDash[s].locating
       /\ vendors' = r.table
       /\ last' = r.result
       /\ vendorDash' = [vendorDash EXCEPT ![s].locating = FALSE,
                                           ![s].locationTracking = TRUE,
                                           ![s].watching = TRUE]
       /\ UNCHANGED <<profiles, subscriptions, customer_calls, now,
                      customerDash>>

\* watchPosition's callback in startLocationUpdates (the watch is never
\* cleared: the function that clears it is returned and dropped).
startLocationUpdates(s, pos) ==
    LET r == VendorsUpdate(vendorDash[s].user, vendorDash[s].vendor,
                           locationPatch(pos))
    IN /\ vendorDash[s].watching
       /\ vendors' = r.table
       /\ last' = r.result
       /\ UNCHANGED <<profiles, subscriptions, customer_calls, now, sessions>>

\* The values VendorSetupForm inserts (business_type and description go
\* with business_name).
handleSubmitValues(uid, businessName) ==
    [user_id |-> uid, business_name |-> businessName]

\* VendorSetupForm.handleSubmit: shown while the session has no vendor.
\* On success onComplete() starts loadVendorData, a step of its own.
handleSubmit(s, businessName) ==
    LET r == VendorsInsert(vendorDash[s].user,
                           handleSubmitValues(vendorDash[s].user, businessName))
    IN /\ ~vendorDash[s].loading
       /\ vendorDash[s].vendor = NULL
       /\ VendorIds \ DOMAIN vendors # {}
       /\ vendors' = r.table
       /\ last' = r.result
       /\ UNCHANGED <<profiles, subscriptions, customer_calls, now, sessions>>

\* Direct updates that complete a call, with the completion time or
\* without it.
CompletePatches ==
    {[status |-> "completed", completed_at |-> now], [status |-> "completed"]}

\* ------------------------------------------------------------- deletes
\* The rows of a table under the ids kept.
Restrict(table, keep) == [i \in keep |-> table[i]]

\* vendors.user_id REFERENCES profiles(id) ON DELETE CASCADE
VendorsOfProfiles(gone) ==
    {v \in DOMAIN vendors : vendors[v].user_id \in gone}

\* subscriptions.vendor_id REFERENCES vendors(id) ON DELETE CASCADE
SubsOfVendors_None(gone) == {}
SubsOfVendors(gone) ==
    {i \in DOMAIN subscriptions : subscriptions[i].vendor_id \in gone}

\* customer_calls.customer_id REFERENCES profiles(id) ON DELETE CASCADE,
\* customer_calls.vendor_id REFERENCES vendors(id) ON DELETE CASCADE
CallsOf(goneProfiles, goneVendors) ==
    {c \in DOMAIN customer_calls :
        \/ customer_calls[c].customer_id \in goneProfiles
        \/ customer_calls[c].vendor_id \in goneVendors}

\* The rows under goneProfiles and goneVendors leave, and their child rows
\* with them, in the one statement.
Cascade(op, target, goneProfiles, goneVendors) ==
    LET vs == goneVendors \cup VendorsOfProfiles(goneProfiles)
        ss == SubsOfVendors(vs)
        cs == CallsOf(goneProfiles, vs)
    IN /\ profiles' = Restrict(profiles, DOMAIN profiles \ goneProfiles)
       /\ vendors' = Restrict(vendors, DOMAIN vendors \ vs)
       /\ subscriptions' = Restrict(subscriptions, DOMAIN subscriptions \ ss)
       /\ customer_calls' = Restrict(customer_calls, DOMAIN customer_calls \ cs)
       /\ last' = Result(op, 0, target, NoArgs, "ok", vs \cup ss \cup cs)

\* An account is removed from auth.users (by the service role, not by a
\* signed-in caller): profiles.id REFERENCES auth.users(id) ON DELETE CASCADE.
DeleteUser(u) ==
    /\ u \in DOMAIN profiles
    /\ Cascade("delete_users", u, {u}, {})
    /\ UNCHANGED <<now, sessions>>

\* DELETE FROM vendors WHERE id = v by the service role, which row-level
\* security does not bind.
DeleteVendorRow(v) ==
    /\ v \in DOMAIN vendors
    /\ Cascade("delete_vendors", v, {}, {v})
    /\ UNCHANGED <<now, sessions>>

\* DELETE FROM vendors WHERE id = v by a signed-in caller: the table has
\* no DELETE policy, so the statement sees no row.
DeleteVendor(uid, v) ==
    /\ last' = Result("delete_vendors", uid, v, NoArgs, "ok", {})
    /\ UNCHANGED <<tables, now, sessions>>

\* --------------------------------------------------------------- clock
Tick ==
    /\ now < MaxTime
    /\ now' = now + 1
    /\ UNCHANGED <<tables, last, sessions>>

\* ------------------------------------------------------ initial values
NoStatement == Result("none", 0, 0, NoArgs, "ok", {})
Empty == [i \in {} |-> 0]

InitProfiles ==
    /\ profiles = Empty
    /\ vendors = Empty
    /\ subscriptions = Empty
    /\ customer_calls = Empty
    /\ now = 0
    /\ last = NoStatement
    /\ vendorDash = Empty
    /\ customerDash = Empty

\* Users 1 and 2 sign up and edit profiles; user 3 is signed in and has
\* no profile row.
NextProfiles ==
    \/ \E uid \in Users, vals \in ProfileInserts : InsertProfile(uid, vals)
    \/ \E uid \in Users, target \in {1, 2}, patch \in ProfilePatches :
          UpdateProfile(uid, target, patch)
    \/ Tick

SpecProfiles == InitProfiles /\ [][NextProfiles]_vars

\* A profile row as sign-up leaves it.
Profile(id, type) ==
    [id |-> id, full_name |-> "a", user_type |-> type,
     created_at |-> 0, updated_at |-> 0]

\* Users 1 and 2 are vendors-to-be with a profile; user 3 is signed in and
\* has no profile row yet.
InitVendors ==
    /\ profiles = [i \in {1, 2} |-> Profile(i, "vendor")]
    /\ vendors = Empty
    /\ subscriptions = Empty
    /\ customer_calls = Empty
    /\ now = 0
    /\ last = NoStatement
    /\ vendorDash = Empty
    /\ customerDash = Empty

NextVendors ==
    \/ \E uid \in Users, vals \in VendorInserts : InsertVendor(uid, vals)
    \/ \E uid \in Users, target \in VendorIds, patch \in VendorPatches :
          UpdateVendor(uid, target, patch)
    \/ \E uid \in Users : SelectVendors(uid)
    \/ Tick

SpecVendors == InitVendors /\ [][NextVendors]_vars

\* A vendor row as the setup form leaves it, then activated or not.
Vendor(id, uid, active) ==
    [id |-> id, user_id |-> uid, business_name |-> "a",
     is_active |-> active,
     current_latitude |-> IF active THEN 1 ELSE NULL,
     current_longitude |-> IF active THEN 1 ELSE NULL,
     last_location_update |-> IF active THEN 0 ELSE NULL,
     created_at |-> 0, updated_at |-> 0]

\* Users 1 and 2 are vendors, each with a vendor row (11 active, 12 not
\* yet activated); user 3 is a customer.
PopulatedProfiles ==
    [i \in Users |-> Profile(i, IF i = 3 THEN "customer" ELSE "vendor")]
PopulatedVendors ==
    [v \in {11, 12} |-> Vendor(v, v - 10, v = 11)]

InitSubs ==
    /\ profiles = PopulatedProfiles
    /\ vendors = PopulatedVendors
    /\ subscriptions = Empty
    /\ customer_calls = Empty
    /\ now = 0
    /\ last = NoStatement
    /\ vendorDash = Empty
    /\ customerDash = Empty

NextSubs ==
    \/ \E uid \in Users, vals \in SubInserts : InsertSubscription(uid, vals)
    \/ \E uid \in Users, target \in SubIds, patch \in SubPatches :
          UpdateSubscription(uid, target, patch)
    \/ \E uid \in Users : SelectSubscriptions(uid)

SpecSubs == InitSubs /\ [][NextSubs]_vars

\* The call log under direct statements of every identity and under the
\* customer's dashboard (user 3 is the customer).
InitCalls ==
    /\ profiles = PopulatedProfiles
    /\ vendors = PopulatedVendors
    /\ subscriptions = Empty
    /\ customer_calls = Empty
    /\ now = 0
    /\ last = NoStatement
    /\ vendorDash = Empty
    /\ customerDash = [u \in {3} |-> CustomerState]

NextCalls ==
    \/ \E uid \in Users, vals \in CallInserts : InsertCall(uid, vals)
    \/ \E uid \in Users, target \in CallIds, patch \in CallPatches :
          UpdateCall(uid, target, patch)
    \/ \E uid \in Users : SelectCalls(uid)
    \/ \E u \in DOMAIN customerDash, pos \in Positions : getUserLocation(u, pos)
    \/ \E u \in DOMAIN customerDash : loadVendors(u)
    \/ \E u \in DOMAIN customerDash :
          \E data \in customerDash[u].loads : setVendors(u, data)
    \/ \E u \in DOMAIN customerDash, v \in VendorIds : callVendor(u, v)
    \/ \E u \in DOMAIN customerDash : callingSentTimeout(u)

SpecCalls == InitCalls /\ [][NextCalls]_vars

\* The call lifecycle: customer 3, located and with vendor 11 listed, calls
\* vendor 11; user 1, who owns vendor 11, has the vendor dashboard open;
\* any identity may send the direct update that completes a call.
Init ==
    /\ profiles = PopulatedProfiles
    /\ vendors = PopulatedVendors
    /\ subscriptions = Empty
    /\ customer_calls = Empty
    /\ now = 0
    /\ last = NoStatement
    /\ vendorDash = [s \in {"s1"} |-> VendorState(1)]
    /\ customerDash =
         [u \in {3} |-> [CustomerState EXCEPT !.vendors = {11},
                                             !.userLocation = [lat |-> 1, lng |-> 2]]]

Next ==
    \/ \E u \in DOMAIN customerDash, v \in VendorIds : callVendor(u, v)
    \/ \E u \in DOMAIN customerDash : callingSentTimeout(u)
    \/ \E s \in DOMAIN vendorDash : loadVendorData(s)
    \/ \E s \in DOMAIN vendorDash, c \in CallIds : acknowledgeCall(s, c)
    \/ \E s \in DOMAIN vendorDash : acknowledgeApply(s)
    \/ \E s \in DOMAIN vendorDash : acknowledgeDone(s)
    \/ \E uid \in Users, target \in CallIds, patch \in CompletePatches :
          UpdateCall(uid, target, patch)
    \/ Tick

Spec == Init /\ [][Next]_vars

\* Two dashboards of the same vendor identity (two tabs, or two devices) on
\* the call log: both list the pending call and both may acknowledge it.
InitAck ==
    /\ profiles = PopulatedProfiles
    /\ vendors = PopulatedVendors
    /\ subscriptions = Empty
    /\ customer_calls = Empty
    /\ now = 0
    /\ last = NoStatement
    /\ vendorDash = [s \in {"s1", "s2"} |-> VendorState(1)]
    /\ customerDash =
         [u \in {3} |-> [CustomerState EXCEPT !.vendors = {11},
                                             !.userLocation = [lat |-> 1, lng |-> 2]]]

NextAck ==
    \/ \E u \in DOMAIN customerDash, v \in VendorIds : callVendor(u, v)
    \/ \E u \in DOMAIN customerDash : callingSentTimeout(u)
    \/ \E s \in DOMAIN vendorDash : loadVendorData(s)
    \/ \E s \in DOMAIN vendorDash, c \in CallIds : acknowledgeCall(s, c)
    \/ \E s \in DOMAIN vendorDash : acknowledgeApply(s)
    \/ \E s \in DOMAIN vendorDash : acknowledgeDone(s)
    \/ Tick

SpecAck == InitAck /\ [][NextAck]_vars

\* A subscription row as handlePayment leaves it.
Subscription(id, vendorId, start, end) ==
    [id |-> id, vendor_id |-> vendorId, start_date |-> start,
     end_date |-> end, amount |-> DefaultAmount, status |-> "active",
     payment_date |-> start, created_at |-> start]

\* The vendor dashboards: identity 1 has a vendor row, not yet activated,
\* and a paid subscription whose last day is today; identity 2 has no
\* vendor row yet and gets the setup form; each has the dashboard open
\* twice.
InitSession ==
    /\ profiles = PopulatedProfiles
    /\ vendors = [v \in {11} |-> Vendor(11, 1, FALSE)]
    /\ subscriptions = [i \in {21} |-> Subscription(21, 11, 0, 0)]
    /\ customer_calls = Empty
    /\ now = 0
    /\ last = NoStatement
    /\ vendorDash = [s \in {"s1", "s2", "s3", "s4"} |->
                       VendorState(IF s \in {"s3", "s4"} THEN 2 ELSE 1)]
    /\ customerDash = Empty

NextSession ==
    \/ \E s \in DOMAIN vendorDash : loadVendorData(s)
    \/ \E s \in DOMAIN vendorDash : handleSubmit(s, "a")
    \/ \E s \in DOMAIN vendorDash : toggleLocationTracking(s)
    \/ \E s \in DOMAIN vendorDash, pos \in Positions : activatePosition(s, pos)
    \/ \E s \in DOMAIN vendorDash, pos \in Positions :
          startLocationUpdates(s, pos)
    \/ Tick

SpecSession == InitSession /\ [][NextSession]_vars

\* The updated_at trigger: every identity updates profiles and vendors,
\* its own and others', naming updated_at or created_at or neither, while
\* the clock advances.
InitTrigger ==
    /\ profiles = PopulatedProfiles
    /\ vendors = PopulatedVendors
    /\ subscriptions = Empty
    /\ customer_calls = Empty
    /\ now = 0
    /\ last = NoStatement
    /\ vendorDash = Empty
    /\ customerDash = Empty

\* Updates that name a column and no time, a column and an updated_at of
\* the caller's, or created_at.
TriggerProfilePatches ==
    {[full_name |-> "b"], [full_name |-> "b", updated_at |-> 0],
     [created_at |-> 0]}
TriggerVendorPatches ==
    {[is_active |-> TRUE], [is_active |-> FALSE, updated_at |-> 0]}

NextTrigger ==
    \/ \E uid \in Users, target \in {1, 2}, patch \in TriggerProfilePatches :
          UpdateProfile(uid, target, patch)
    \/ \E uid \in Users, target \in {11, 12}, patch \in TriggerVendorPatches :
          UpdateVendor(uid, target, patch)
    \/ Tick

SpecTrigger == InitTrigger /\ [][NextTrigger]_vars

\* Parents and children: vendors, subscriptions and calls are inserted by
\* every identity, accounts and vendor rows are removed.
InitCascade ==
    /\ profiles = PopulatedProfiles
    /\ vendors = PopulatedVendors
    /\ subscriptions = Empty
    /\ customer_calls = Empty
    /\ now = 0
    /\ last = NoStatement
    /\ vendorDash = Empty
    /\ customerDash = Empty

\* Child rows for every vendor id, stored or not (13 never is).
CascadeSubInserts ==
    {[vendor_id |-> v, start_date |-> now, end_date |-> now + 1] :
        v \in VendorIds}
CascadeCallInserts(uid) ==
    {[customer_id |-> uid, vendor_id |-> v,
      customer_latitude |-> 1, customer_longitude |-> 2] : v \in VendorIds}

NextCascade ==
    \/ \E uid \in {1, 2} : InsertVendor(uid, handleSubmitValues(uid, "a"))
    \/ \E uid \in {1, 2}, vals \in CascadeSubInserts :
          InsertSubscription(uid, vals)
    \/ \E uid \in Users : \E vals \in CascadeCallInserts(uid) :
          InsertCall(uid, vals)
    \/ \E u \in Users : DeleteUser(u)
    \/ \E v \in VendorIds : DeleteVendorRow(v)
    \/ \E uid \in {1, 2} : DeleteVendor(uid, 11)

SpecCascade == InitCascade /\ [][NextCascade]_vars

\* The customer's vendor list: customer 3 has the dashboard open while
\* identities 1 and 2 activate and deactivate vendor rows, their own and
\* (to no effect) each other's.
InitList ==
    /\ profiles = PopulatedProfiles
    /\ vendors = PopulatedVendors
    /\ subscriptions = Empty
    /\ customer_calls = Empty
    /\ now = 0
    /\ last = NoStatement
    /\ vendorDash = Empty
    /\ customerDash = [u \in {3} |-> CustomerState]

\* Activation with a position, activation of the flag alone, deactivation.
ListPatches ==
    {activatePatch([lat |-> 1, lng |-> 1]), [is_active |-> TRUE],
     deactivatePatch}

NextList ==
    \/ \E uid \in {1, 2}, target \in {11, 12}, patch \in ListPatches :
          UpdateVendorListened(uid, target, patch)
    \/ \E u \in DOMAIN customerDash : vendorsChanged(u)
    \/ \E u \in DOMAIN customerDash : loadVendors(u)
    \/ \E u \in DOMAIN customerDash :
          \E data \in customerDash[u].loads : setVendors(u, data)

SpecList == InitList /\ [][NextList]_vars

\* A call row as callVendor leaves it.
Call(id, customerId, vendorId) ==
    [id |-> id, customer_id |-> customerId, vendor_id |-> vendorId,
     customer_latitude |-> 1, customer_longitude |-> 2,
     status |-> "pending", created_at |-> 0,
     acknowledged_at |-> NULL, completed_at |-> NULL]

\* The pending list while calls keep coming: an earlier call (30) of
\* customer 3 to vendor 11 is pending; the vendor's dashboard mounts and
\* reloads on every new call; the customer, located and with vendor 11
\* listed, calls again.
InitReload ==
    /\ profiles = PopulatedProfiles
    /\ vendors = PopulatedVendors
    /\ subscriptions = Empty
    /\ customer_calls = [c \in {30} |-> Call(30, 3, 11)]
    /\ now = 0
    /\ last = NoStatement
    /\ vendorDash = [s \in {"s1"} |-> VendorState(1)]
    /\ customerDash =
         [u \in {3} |-> [CustomerState EXCEPT !.vendors = {11},
                                             !.userLocation = [lat |-> 1, lng |-> 2]]]

NextReload ==
    \/ \E u \in DOMAIN customerDash, v \in VendorIds : callVendor(u, v)
    \/ \E u \in DOMAIN customerDash : callingSentTimeout(u)
    \/ \E s \in DOMAIN vendorDash : loadVendorData(s)
    \/ \E s \in DOMAIN vendorDash :
          \E c \in vendorDash[s].calls : acknowledgeCall(s, c)
    \/ \E s \in DOMAIN vendorDash : acknowledgeApply(s)
    \/ \E s \in DOMAIN vendorDash : acknowledgeDone(s)
    \/ Tick

SpecReload == InitReload /\ [][NextReload]_vars

\* ===================================================================
\* Properties
\* ===================================================================
\* The rows of a table under an id: one row, or none.
RowsAt(table, id) == {table[i] : i \in DOMAIN table \cap {id}}

Writes(table) == {"insert_" \o table, "update_" \o table}

\* The step is a statement: last' is that statement and its result.
Statement == last' # last \/ tables' # tables

\* C3: a caller's update of a Vendor row goes through if and only if the
\* row's user_id is the caller before the update and in the row the update
\* would store; any authenticated caller's read returns every Vendor row.
C3_VendorUpdateIffOwner ==
    [][/\ (/\ Statement
           /\ last'.op = "update_vendors"
           /\ last'.target \in DOMAIN vendors) =>
            LET old == vendors[last'.target]
                permitted == /\ last'.err = "ok"
                             /\ last'.rows = {last'.target}
                owner == /\ old.user_id = last'.caller
                         /\ ApplyPatch(old, last'.args).user_id = last'.caller
            IN /\ permitted <=> owner
               /\ permitted =>
                     /\ vendors'[last'.target].user_id = last'.caller
                     /\ vendors'[last'.target] =
                          [ApplyPatch(old, last'.args) EXCEPT !.updated_at = now]
               /\ ~permitted => vendors' = vendors
       /\ (Statement /\ last'.op = "select_vendors") =>
            last'.err = "ok" /\ last'.rows = DOMAIN vendors
      ]_vars

\* C3 witness: an owner's update went through, and the table holds a row
\* of another identity as well.
C3_Witness ==
    /\ last.op = "update_vendors"
    /\ last.rows = {last.target}
    /\ "is_active" \in DOMAIN last.args
    /\ \E v \in DOMAIN vendors : vendors[v].user_id # last.caller

\* C4 (as claimed): a write the policy or a constraint rejects changes no
\* row and comes back to the caller as an error; vendor A's update of
\* vendor B's row is such a write.
C4_RejectedWriteIsAnError ==
    [][(/\ Statement
        /\ last'.op = "update_vendors"
        /\ last'.target \in DOMAIN vendors
        /\ ~VendorsUpdateUsing(last'.caller, vendors[last'.target]))
         => (last'.err # "ok" /\ vendors' = vendors)]_vars

\* C5: a profile row is inserted or changed only by the identity whose id
\* it carries; an insert for another id is refused with an error and an
\* update naming another id changes no row.
C5_OwnProfileOnly ==
    [][/\ \A i \in Users :
            RowsAt(profiles', i) # RowsAt(profiles, i) =>
               /\ last'.op \in Writes("profiles")
               /\ last'.caller = i
               /\ last'.target = i
       /\ (/\ Statement
           /\ last'.op \in Writes("profiles")
           /\ last'.target # last'.caller) =>
            /\ profiles' = profiles
            /\ last'.rows = {}
            /\ last'.op = "insert_profiles" => last'.err = "rls"
      ]_vars

\* C5 witness: an update naming another identity's existing row was tried.
C5_Witness ==
    /\ last.op = "update_profiles"
    /\ last.target # last.caller
    /\ last.target \in DOMAIN profiles
    /\ last.caller \in DOMAIN profiles

\* C6: a caller reads, inserts or updates a Subscription row only if the
\* row's vendor_id is a vendor the caller owns; a caller who owns no
\* vendor sees no row and writes none.
C6_SubscriptionsOfOwnVendorOnly ==
    [][Statement =>
        /\ last'.op = "select_subscriptions" =>
             \A i \in last'.rows :
                vendors[subscriptions[i].vendor_id].user_id = last'.caller
        /\ \A i \in SubIds :
             RowsAt(subscriptions', i) # RowsAt(subscriptions, i) =>
                /\ last'.op \in Writes("subscriptions")
                /\ \A r \in RowsAt(subscriptions, i) \cup RowsAt(subscriptions', i) :
                      /\ r.vendor_id \in DOMAIN vendors
                      /\ vendors[r.vendor_id].user_id = last'.caller
        /\ OwnVendorIds(last'.caller) = {} =>
             last'.rows = {} /\ subscriptions' = subscriptions
      ]_vars

\* C6 witness: a caller who owns a vendor tried to update a Subscription
\* row of a vendor they do not own.
C6_Witness ==
    /\ last.op = "update_subscriptions"
    /\ last.target \in DOMAIN subscriptions
    /\ OwnVendorIds(last.caller) # {}
    /\ subscriptions[last.target].vendor_id \notin OwnVendorIds(last.caller)

\* C2: a Call row changes under an update only when the caller is the
\* identity that owns the row's vendor; an update by the row's customer,
\* or by anyone else who does not own that vendor, leaves the table as it
\* was.
C2_OnlyOwningVendorUpdatesCall ==
    [][Statement =>
        /\ \A i \in DOMAIN customer_calls \cap DOMAIN customer_calls' :
             customer_calls'[i] # customer_calls[i] =>
                /\ last'.op = "update_customer_calls"
                /\ last'.target = i
                /\ vendors[customer_calls[i].vendor_id].user_id = last'.caller
        /\ (/\ last'.op = "update_customer_calls"
            /\ last'.target \in DOMAIN customer_calls
            /\ vendors[customer_calls[last'.target].vendor_id].user_id
                  # last'.caller)
             => customer_calls' = customer_calls /\ last'.rows = {}
      ]_vars

\* C2 witness: the customer of a call to someone else's vendor tried to
\* update it.
C2_Witness ==
    /\ last.op = "update_customer_calls"
    /\ last.target \in DOMAIN customer_calls
    /\ customer_calls[last.target].customer_id = last.caller
    /\ vendors[customer_calls[last.target].vendor_id].user_id # last.caller

\* C7: a read of the call log returns exactly the rows whose customer is
\* the caller or whose vendor the caller owns, and never an error; for a
\* row of neither kind the caller gets nothing.
C7_CallVisibleToCustomerAndVendor ==
    [][(Statement /\ last'.op = "select_customer_calls") =>
        /\ last'.err = "ok"
        /\ last'.rows =
             {i \in DOMAIN customer_calls :
                \/ customer_calls[i].customer_id = last'.caller
                \/ vendors[customer_calls[i].vendor_id].user_id = last'.caller}
      ]_vars

\* C7 witness: a caller who is neither customer nor vendor of any stored
\* call read the log and got an empty set; the vendor's owner is not the
\* customer.
C7_Witness ==
    /\ last.op = "select_customer_calls"
    /\ last.rows = {}
    /\ \E i \in DOMAIN customer_calls :
          vendors[customer_calls[i].vendor_id].user_id
             \notin {customer_calls[i].customer_id, last.caller}

\* C8: a Call row comes into being only by an insert whose caller is the
\* row's customer_id; the row callVendor creates is pending, carries the
\* insert's time as created_at, and has no acknowledgement or completion
\* time.
C8_CallInsertedByItsCustomer ==
    [][\A i \in DOMAIN customer_calls' \ DOMAIN customer_calls :
         LET row == customer_calls'[i]
         IN /\ last'.op = "insert_customer_calls"
            /\ last'.err = "ok"
            /\ row.customer_id = last'.caller
            /\ customerDash' # customerDash =>
                 /\ row.status = "pending"
                 /\ row.created_at = now /\ row.created_at # NULL
                 /\ row.acknowledged_at = NULL
                 /\ row.completed_at = NULL
                 /\ customerDash'[row.customer_id].callingSent = row.vendor_id
      ]_vars

\* C8 witness: callVendor has stored a call.
C8_Witness ==
    /\ last.op = "insert_customer_calls"
    /\ last.rows # {}
    /\ \E u \in DOMAIN customerDash :
          /\ customerDash[u].callingSent # NULL
          /\ \E i \in last.rows : customer_calls[i].customer_id = u

\* pending, acknowledged, completed in lifecycle order.
Rank(status) ==
    CASE status = "pending" -> 0
      [] status = "acknowledged" -> 1
      [] status = "completed" -> 2

\* C1 (as claimed): no write moves a Call row to an earlier status: the
\* statuses a row takes are a subsequence of pending, acknowledged,
\* completed.
C1_StatusNeverMovesBack ==
    [][\A i \in DOMAIN customer_calls \cap DOMAIN customer_calls' :
         Rank(customer_calls'[i].status) >= Rank(customer_calls[i].status)
      ]_vars

\* The step is the update of session s's acknowledgeCall reaching the
\* database.
AckApplied(s) ==
    /\ vendorDash[s].ack.stage = "sent"
    /\ vendorDash'[s].ack.stage = "applied"

\* C9: when the owning vendor's acknowledgeCall updates a pending call,
\* the row is acknowledged afterwards with the acknowledgement time the
\* handler sent, which is not null, and created_at, customer_id, vendor_id
\* and the customer's coordinates are as before.
C9_AcknowledgeFrame ==
    [][\A s \in DOMAIN vendorDash :
         LET id == vendorDash[s].ack.id
         IN (/\ AckApplied(s)
             /\ id \in DOMAIN customer_calls
             /\ customer_calls[id].status = "pending"
             /\ vendors[customer_calls[id].vendor_id].user_id
                   = vendorDash[s].user)
             => LET old == customer_calls[id]
                    new == customer_calls'[id]
                IN /\ new.status = "acknowledged"
                   /\ new.acknowledged_at # NULL
                   /\ new.acknowledged_at = vendorDash[s].ack.at
                   /\ new.created_at = old.created_at
                   /\ new.customer_id = old.customer_id
                   /\ new.vendor_id = old.vendor_id
                   /\ new.customer_latitude = old.customer_latitude
                   /\ new.customer_longitude = old.customer_longitude
                   /\ DOMAIN customer_calls' = DOMAIN customer_calls
      ]_vars

\* C9 witness: an acknowledgeCall has just updated a call that was
\* pending (it has no completion time), at a time later than its creation.
C9_Witness ==
    \E s \in DOMAIN vendorDash :
       LET id == vendorDash[s].ack.id
       IN /\ vendorDash[s].ack.stage = "applied"
          /\ last.op = "update_customer_calls"
          /\ last.rows = {id}
          /\ customer_calls[id].status = "acknowledged"
          /\ customer_calls[id].completed_at = NULL
          /\ customer_calls[id].acknowledged_at > customer_calls[id].created_at

\* C10 (as claimed): in every state an acknowledged call has an
\* acknowledgement time, a completed call has a completion time, and a
\* pending call has neither.
C10_StatusHasItsTimestamp ==
    \A i \in DOMAIN customer_calls :
       LET row == customer_calls[i]
       IN /\ row.status = "acknowledged" => row.acknowledged_at # NULL
          /\ row.status = "completed" => row.completed_at # NULL
          /\ row.status = "pending" =>
               row.acknowledged_at = NULL /\ row.completed_at = NULL

\* C11 (as claimed): when an acknowledgeCall of the owning vendor reaches a
\* call that an earlier acknowledgeCall has already acknowledged, it ends
\* without an error and the row keeps the status and the acknowledgement
\* time the first one stored.
C11_SecondAcknowledgeKeepsResult ==
    [][\A s \in DOMAIN vendorDash :
         LET id == vendorDash[s].ack.id
         IN (/\ AckApplied(s)
             /\ id \in DOMAIN customer_calls
             /\ customer_calls[id].status = "acknowledged")
             => /\ last'.err = "ok"
                /\ customer_calls'[id].status = "acknowledged"
                /\ customer_calls'[id].acknowledged_at
                     = customer_calls[id].acknowledged_at
      ]_vars

\* The columns of the stored position.
PositionColumns ==
    {"current_latitude", "current_longitude", "last_location_update"}

\* C12: a write of a vendor dashboard that sets is_active to true names
\* latitude, longitude and last_location_update in the same update, with
\* values that are not null, and the setup form's insert stores an
\* inactive row; so in every state a Vendor row that is active has both
\* coordinates.
C12_ActiveHasPosition ==
    /\ [](\A v \in DOMAIN vendors :
            vendors[v].is_active =>
               /\ vendors[v].current_latitude # NULL
               /\ vendors[v].current_longitude # NULL)
    /\ [][/\ (/\ Statement
               /\ last'.op = "update_vendors"
               /\ "is_active" \in DOMAIN last'.args
               /\ last'.args.is_active) =>
                /\ PositionColumns \subseteq DOMAIN last'.args
                /\ \A c \in PositionColumns : last'.args[c] # NULL
                /\ last'.err = "ok" /\ last'.rows = {last'.target}
                /\ \A c \in PositionColumns :
                      vendors'[last'.target][c] = last'.args[c]
           /\ \A v \in DOMAIN vendors' \ DOMAIN vendors :
                ~vendors'[v].is_active
          ]_vars

\* C12 witness: a dashboard has activated a vendor that was set up and
\* never located before, while another identity's setup has stored a row.
C12_Witness ==
    /\ last.op = "update_vendors"
    /\ "is_active" \in DOMAIN last.args
    /\ last.args.is_active
    /\ vendors[last.target].is_active
    /\ vendors[last.target].current_latitude = 2
    /\ \E v \in DOMAIN vendors : v # last.target /\ ~vendors[v].is_active

\* The step takes session s from tracking to not tracking: the
\* deactivating branch of toggleLocationTracking (or a reload that finds
\* the row already deactivated, which writes nothing).
Deactivated(s) ==
    /\ vendorDash[s].locationTracking
    /\ ~vendorDash'[s].locationTracking

\* C13: when a dashboard deactivates its vendor, the row is inactive
\* afterwards and its latitude, longitude and last_location_update, like
\* its owner, name and creation time, are what they were before.
C13_DeactivateFrame ==
    [][\A s \in DOMAIN vendorDash :
         Deactivated(s) =>
            LET old == vendors[vendorDash[s].vendor]
                new == vendors'[vendorDash[s].vendor]
            IN /\ ~new.is_active
               /\ \A c \in PositionColumns : new[c] = old[c]
               /\ new.user_id = old.user_id
               /\ new.business_name = old.business_name
               /\ new.created_at = old.created_at
               /\ DOMAIN vendors' = DOMAIN vendors
      ]_vars

\* C13 witness: a dashboard's deactivating update has gone through on a
\* row that holds a position.
C13_Witness ==
    /\ last.op = "update_vendors"
    /\ last.rows = {last.target}
    /\ "is_active" \in DOMAIN last.args
    /\ ~last.args.is_active
    /\ ~vendors[last.target].is_active
    /\ \A c \in PositionColumns : vendors[last.target][c] # NULL

\* The subscriptions that cover a vendor today: status active and today
\* within start_date..end_date.
Covering(vendorId) ==
    {i \in DOMAIN subscriptions :
        /\ subscriptions[i].vendor_id = vendorId
        /\ subscriptions[i].status = "active"
        /\ subscriptions[i].start_date <= now
        /\ now <= subscriptions[i].end_date}

\* The step is a loadVendorData of session s that changed what it holds.
Reloaded(s) ==
    /\ vendorDash'[s] # vendorDash[s]
    /\ vendorDash'[s].locating = vendorDash[s].locating
    /\ UNCHANGED <<tables, last>>

\* C14 (as claimed): a dashboard that has just loaded its data offers the
\* toggle only if a covering subscription is stored for its vendor, and a
\* dashboard's write activates a vendor only while one is.
C14_ToggleOnlyWhenCovered ==
    [][/\ \A s \in DOMAIN vendorDash :
            (Reloaded(s) /\ ToggleEnabled(s)')
               => Covering(vendorDash'[s].vendor) # {}
       /\ \A v \in DOMAIN vendors :
            (~vendors[v].is_active /\ vendors'[v].is_active)
               => Covering(v) # {}
      ]_vars

\* C15: a stored Subscription row has amount 5000 when its insert named
\* no amount and status pending when its insert named no status; it is
\* active only if the insert said so; an insert naming a status outside
\* pending, active, expired stores nothing and ends in an error, and no
\* stored row ever has such a status.
C15_SubscriptionDefaults ==
    [][/\ (Statement /\ last'.op = "insert_subscriptions") =>
            LET args == last'.args
            IN /\ last'.err = "ok" =>
                    LET row == subscriptions'[last'.target]
                    IN /\ last'.target \notin DOMAIN subscriptions
                       /\ "amount" \notin DOMAIN args => row.amount = 5000
                       /\ "amount" \in DOMAIN args => row.amount = args.amount
                       /\ "status" \notin DOMAIN args => row.status = "pending"
                       /\ row.status = "active" =>
                             /\ "status" \in DOMAIN args
                             /\ args.status = "active"
               /\ ("status" \in DOMAIN args
                     /\ args.status \notin {"pending", "active", "expired"}) =>
                    /\ last'.err # "ok"
                    /\ subscriptions' = subscriptions
       /\ \A i \in DOMAIN subscriptions' :
            subscriptions'[i].status \in {"pending", "active", "expired"}
      ]_vars

\* C15 witness: an insert that named neither amount nor status has stored
\* a row.
C15_Witness ==
    /\ last.op = "insert_subscriptions"
    /\ last.err = "ok"
    /\ DOMAIN last.args \cap {"amount", "status"} = {}
    /\ last.target \in DOMAIN subscriptions
    /\ subscriptions[last.target].amount = 5000
    /\ subscriptions[last.target].status = "pending"

\* C16: an update of a profiles or vendors row that goes through stores
\* the statement's time as updated_at, whatever the update names and
\* whatever updated_at it carries; every other column, created_at among
\* them, is what the update named or what it was; and updated_at of a row
\* never goes down.
C16_UpdatedAtIsStatementTime ==
    [][/\ (/\ Statement
           /\ last'.op = "update_profiles"
           /\ last'.err = "ok" /\ last'.rows = {last'.target}) =>
            LET old == profiles[last'.target]
                new == profiles'[last'.target]
            IN /\ new.updated_at = now
               /\ \A c \in DOMAIN new \ {"updated_at"} :
                     new[c] = ApplyPatch(old, last'.args)[c]
               /\ "created_at" \notin DOMAIN last'.args =>
                     new.created_at = old.created_at
       /\ (/\ Statement
           /\ last'.op = "update_vendors"
           /\ last'.err = "ok" /\ last'.rows = {last'.target}) =>
            LET old == vendors[last'.target]
                new == vendors'[last'.target]
            IN /\ new.updated_at = now
               /\ \A c \in DOMAIN new \ {"updated_at"} :
                     new[c] = ApplyPatch(old, last'.args)[c]
               /\ "created_at" \notin DOMAIN last'.args =>
                     new.created_at = old.created_at
       /\ \A i \in DOMAIN profiles \cap DOMAIN profiles' :
            profiles'[i].updated_at >= profiles[i].updated_at
       /\ \A v \in DOMAIN vendors \cap DOMAIN vendors' :
            vendors'[v].updated_at >= vendors[v].updated_at
      ]_vars

\* C16 witness: an update that carried an earlier updated_at of its own
\* went through and the row holds the statement's time; a row of the other
\* table has been updated as well.
C16_Witness ==
    /\ last.op \in {"update_profiles", "update_vendors"}
    /\ last.rows = {last.target}
    /\ "updated_at" \in DOMAIN last.args
    /\ last.args.updated_at < now
    /\ \E i \in DOMAIN profiles : profiles[i].updated_at = now
    /\ \E v \in DOMAIN vendors : vendors[v].updated_at = now

\* C17: no two Vendor rows have the same user_id; an insert for an
\* identity that already has a row stores nothing, leaves that row as it
\* was, and ends in an error, which is the uniqueness violation when the
\* identity itself submits a complete setup form, also when the form was
\* open in two dashboards of the identity and both submit.
C17_OneVendorPerIdentity ==
    /\ [](\A v, w \in DOMAIN vendors :
            vendors[v].user_id = vendors[w].user_id => v = w)
    /\ [][(/\ Statement
           /\ last'.op = "insert_vendors"
           /\ \E v \in DOMAIN vendors :
                 vendors[v].user_id = last'.args.user_id) =>
            /\ last'.err # "ok"
            /\ last'.rows = {}
            /\ vendors' = vendors
            /\ (/\ last'.caller = last'.args.user_id
                /\ last'.args.business_name # NoText) => last'.err = "unique"
          ]_vars

\* C17 witness: two dashboards of one identity both showed the setup
\* form; one has stored the row, the other's submission was refused as a
\* duplicate while it still shows the form.
C17_Witness ==
    /\ last.op = "insert_vendors"
    /\ last.err = "unique"
    /\ \E v \in DOMAIN vendors : vendors[v].user_id = last.caller
    /\ \E s \in DOMAIN vendorDash :
          /\ vendorDash[s].user = last.caller
          /\ ~vendorDash[s].loading
          /\ vendorDash[s].vendor = NULL

\* C18: in every state each Subscription and each Call names a stored
\* Vendor, each Call's customer and each Vendor's owner is a stored
\* profile; and the step that removes a profile or a Vendor row removes
\* every Vendor, Subscription and Call under it.
C18_NoOrphans ==
    /\ [](/\ \A v \in DOMAIN vendors :
               vendors[v].user_id \in DOMAIN profiles
          /\ \A i \in DOMAIN subscriptions :
               subscriptions[i].vendor_id \in DOMAIN vendors
          /\ \A c \in DOMAIN customer_calls :
               /\ customer_calls[c].vendor_id \in DOMAIN vendors
               /\ customer_calls[c].customer_id \in DOMAIN profiles)
    /\ [][LET goneProfiles == DOMAIN profiles \ DOMAIN profiles'
              goneVendors == DOMAIN vendors \ DOMAIN vendors'
          IN /\ \A v \in DOMAIN vendors :
                  vendors[v].user_id \in goneProfiles => v \in goneVendors
             /\ \A i \in DOMAIN subscriptions :
                  subscriptions[i].vendor_id \in goneVendors
                     => i \notin DOMAIN subscriptions'
             /\ \A c \in DOMAIN customer_calls :
                  (\/ customer_calls[c].vendor_id \in goneVendors
                   \/ customer_calls[c].customer_id \in goneProfiles)
                     => c \notin DOMAIN customer_calls'
          ]_vars

\* C18 witness: an account was removed and a Vendor, a Subscription and a
\* Call went with it, while rows of other identities stay.
C18_Witness ==
    /\ last.op = "delete_users"
    /\ last.rows \cap VendorIds # {}
    /\ last.rows \cap SubIds # {}
    /\ last.rows \cap CallIds # {}
    /\ DOMAIN vendors # {}

\* C19: in every state the latitude, the longitude and the
\* last_location_update of a Vendor row are all null or all set; and a
\* step that changes one of them is an update that names all three, whose
\* values the row then holds, whichever dashboards' activations and
\* position updates come in between.
C19_PositionIsOneSnapshot ==
    /\ [](\A v \in DOMAIN vendors :
            \/ \A c \in PositionColumns : vendors[v][c] = NULL
            \/ \A c \in PositionColumns : vendors[v][c] # NULL)
    /\ [][\A v \in DOMAIN vendors \cap DOMAIN vendors' :
            (\E c \in PositionColumns : vendors'[v][c] # vendors[v][c]) =>
               /\ last'.op = "update_vendors"
               /\ last'.target = v
               /\ PositionColumns \subseteq DOMAIN last'.args
               /\ \A c \in PositionColumns :
                     vendors'[v][c] = last'.args[c]
          ]_vars

\* C19 witness: two dashboards of one identity are both sending position
\* updates, and the row holds the position and the time of the latest
\* one, which differ from those of the activation.
C19_Witness ==
    /\ last.op = "update_vendors"
    /\ DOMAIN last.args = PositionColumns
    /\ \A c \in PositionColumns : vendors[last.target][c] = last.args[c]
    /\ vendors[last.target].last_location_update > 0
    /\ \E s, t \in DOMAIN vendorDash :
          /\ s # t
          /\ vendorDash[s].watching /\ vendorDash[t].watching
          /\ vendorDash[s].vendor = last.target
          /\ vendorDash[t].vendor = last.target

\* The Vendor rows a customer's list is to show: active, with both
\* coordinates.
Listable ==
    {v \in DOMAIN vendors :
        /\ vendors[v].is_active
        /\ vendors[v].current_latitude # NULL
        /\ vendors[v].current_longitude # NULL}

\* C20 (as claimed): what loadVendors reads is exactly the Vendor rows
\* that are active with both coordinates at that moment; and whenever a
\* customer dashboard has no notification, no query and no result
\* outstanding, its list is exactly those rows as stored now.
C20_ListReconciles ==
    /\ [][\A u \in DOMAIN customerDash :
            \A data \in customerDash'[u].loads \ customerDash[u].loads :
               data = Listable]_vars
    /\ [](\A u \in DOMAIN customerDash :
            Outstanding(u) = 0 => customerDash[u].vendors = Listable)

\* The step is the end of session s's acknowledgeCall: its setCalls.
AckFinished(s) ==
    /\ vendorDash[s].ack.stage = "applied"
    /\ vendorDash'[s].ack.stage = "idle"

\* C21 (as claimed): when an acknowledgeCall finishes, every call the
\* dashboard lists that is not the acknowledged one and is pending in
\* storage for the dashboard's vendor is still listed, also a call that a
\* reload brought in while the update was in flight.
C21_AcknowledgeRemovesOnlyItsCall ==
    [][\A s \in DOMAIN vendorDash :
         AckFinished(s) =>
            \A c \in vendorDash[s].calls \ {vendorDash[s].ack.id} :
               (/\ c \in DOMAIN customer_calls
                /\ customer_calls[c].status = "pending"
                /\ customer_calls[c].vendor_id = vendorDash[s].vendor)
                  => c \in vendorDash'[s].calls
      ]_vars

====
